---- MODULE Spec2Model ----
(***************************************************************************)
(* A model of sentry.utils.email: the reply-by-email address codec         *)
(* (group_id_to_email / email_to_group_id) and MessageBuilder.             *)
(*                                                                         *)
(* Python text is a sequence of one-character strings, so that split,      *)
(* replace, join and int() are computed the way the code computes them.    *)
(***************************************************************************)
EXTENDS Integers, Sequences, FiniteSets, TLC

VARIABLES
    secret,      \* settings.SECRET_KEY, the key of the module-level signer
    hostname,    \* SMTP_HOSTNAME
    address,     \* the address last produced by group_id_to_email or received
    origin,      \* where address comes from: "inbound", "encoded", "tampered"
    group_id,    \* the argument of the last group_id_to_email call
    result,      \* outcome of email_to_group_id(address); kind "none" before the call
    enable_email_replies,  \* ENABLE_EMAIL_REPLIES
    ctor_args,   \* the arguments of the last MessageBuilder(...) call
    ctor,        \* its outcome: "none" before any call, "ok", "AssertionError"
    builder,     \* the fields of the MessageBuilder it produced, NoBuilder if none
    msg,         \* outcome of the last build(to) on the builder
    prev_msg,    \* outcome of the build(to) before that one
    send_result  \* outcome of the last send(to, fail_silently) on the builder

codecVars == <<secret, hostname, address, origin, group_id, result>>

builderVars == <<enable_email_replies, ctor_args, ctor, builder, msg, prev_msg, send_result>>

vars == <<codecVars, builderVars>>

----------------------------------------------------------------------------
(* Bounds of the model *)

MaxGroupId == 12
MaxAddrLen == 5
SigLen == 2

\* values of settings.SECRET_KEY
Secrets == {1, 2}

----------------------------------------------------------------------------
(* Characters *)

Digits == <<"0", "1", "2", "3", "4", "5", "6", "7", "8", "9">>

\* every character the model uses; a character's code is its index here
Alphabet == Digits \o <<"a", "b", "h", "-", "_", "+", ":", "@", " ">>

\* characters of a signature: the urlsafe base64 alphabet has letters, digits,
\* '-' and '_', and neither ':' nor '+' nor '@'
SigAlphabet == <<"a", "1", "-">>

\* characters an inbound address is made of
InboundChars == {"1", "a", "-", "+", ":", "@"}

Whitespace == {" "}

Hostnames == { <<"h", ":", "+">>, <<"@", "h">> }

Chars == {Alphabet[k] : k \in 1..Len(Alphabet)}

CharCode(c) == CHOOSE i \in 1..Len(Alphabet) : Alphabet[i] = c

IsDigit(c) == \E i \in 1..Len(Digits) : Digits[i] = c

DigitValue(c) == (CHOOSE i \in 1..Len(Digits) : Digits[i] = c) - 1

----------------------------------------------------------------------------
(* Python string operations *)

Contains(s, c) == \E i \in 1..Len(s) : s[i] = c

\* s.split(c, 1)[0]: the text before the first c, all of s when there is none
split_first(s, c) ==
    IF Contains(s, c)
    THEN SubSeq(s, 1, (CHOOSE i \in 1..Len(s) :
                          s[i] = c /\ \A j \in 1..(i - 1) : s[j] # c) - 1)
    ELSE s

\* s.replace(a, b) for one-character a and b
replace(s, a, b) == [i \in 1..Len(s) |-> IF s[i] = a THEN b ELSE s[i]]

\* '@'.join((a, b))
join_at(a, b) == a \o <<"@">> \o b

RECURSIVE str(_)
\* str(n) of an int: decimal, '-' for a negative one
str(n) ==
    IF n < 0 THEN <<"-">> \o str(-n)
    ELSE IF n < 10 THEN <<Digits[n + 1]>>
    ELSE str(n \div 10) \o <<Digits[(n % 10) + 1]>>

RECURSIVE strip(_)
strip(s) ==
    IF s = <<>> THEN s
    ELSE IF Head(s) \in Whitespace THEN strip(Tail(s))
    ELSE IF s[Len(s)] \in Whitespace THEN strip(SubSeq(s, 1, Len(s) - 1))
    ELSE s

RECURSIVE DecimalValue(_)
DecimalValue(s) ==
    IF s = <<>> THEN 0
    ELSE 10 * DecimalValue(SubSeq(s, 1, Len(s) - 1)) + DigitValue(s[Len(s)])

AllDigits(s) == s # <<>> /\ \A i \in 1..Len(s) : IsDigit(s[i])

\* int(s) of a string: surrounding whitespace, an optional sign, decimal digits
int_ok(s) ==
    LET t == strip(s)
    IN  IF t # <<>> /\ Head(t) \in {"-", "+"} THEN AllDigits(Tail(t))
        ELSE AllDigits(t)

int_value(s) ==
    LET t == strip(s)
    IN  IF Head(t) = "-" THEN -DecimalValue(Tail(t))
        ELSE IF Head(t) = "+" THEN DecimalValue(Tail(t))
        ELSE DecimalValue(t)

----------------------------------------------------------------------------
(* The signer: signer = Signer(), django.core.signing *)

sep == ":"

SigBase == Len(SigAlphabet)

RECURSIVE Power(_, _)
Power(b, e) == IF e = 0 THEN 1 ELSE b * Power(b, e - 1)

RECURSIVE KeyedHash(_, _)
\* a keyed hash of the value, standing for the HMAC
KeyedHash(s, h) ==
    IF s = <<>> THEN h
    ELSE KeyedHash(Tail(s), (h * 7 + CharCode(Head(s))) % Power(SigBase, SigLen))

\* Signer.signature(value): a fixed-length string over the signature alphabet
signature(value, key) ==
    LET h == KeyedHash(value, key)
    IN  [i \in 1..SigLen |-> SigAlphabet[((h \div Power(SigBase, i - 1)) % SigBase) + 1]]

\* Signer.sign(value): value + sep + signature(value)
sign(value, key) == value \o <<sep>> \o signature(value, key)

\* position of the last sep of s
LastSep(s) == CHOOSE i \in 1..Len(s) : s[i] = sep /\ \A j \in (i + 1)..Len(s) : s[j] # sep

\* Signer.unsign(signed_value): BadSignature when there is no sep or the text
\* after the last sep is not the signature of the text before it
unsign(signed_value, key) ==
    IF ~Contains(signed_value, sep) THEN [kind |-> "BadSignature"]
    ELSE LET k == LastSep(signed_value)
             value == SubSeq(signed_value, 1, k - 1)
             sig == SubSeq(signed_value, k + 1, Len(signed_value))
         IN  IF sig = signature(value, key)
             THEN [kind |-> "ok", value |-> value]
             ELSE [kind |-> "BadSignature"]

----------------------------------------------------------------------------
(* The address codec *)

Returned(n) == [kind |-> "returned", id |-> n]

Raised(e) == [kind |-> e]

NoResult == [kind |-> "none"]

\* no address produced or received yet
CodecStart ==
    /\ address = <<>>
    /\ origin = "inbound"
    /\ group_id = 0
    /\ result = NoResult

\* a plausible slip: the '+' of the local part is not mapped back to ':'
email_to_group_id_no_replace(addr, key) ==
    LET unsigned == unsign(split_first(addr, "@"), key)
    IN  IF unsigned.kind # "ok" THEN Raised("BadSignature")
        ELSE IF ~int_ok(unsigned.value) THEN Raised("ValueError")
        ELSE Returned(int_value(unsigned.value))

\* a plausible slip: the payload is read without verifying the signature
email_to_group_id_unverified(addr, key) ==
    LET payload == split_first(split_first(addr, "@"), "+")
    IN  IF ~int_ok(payload) THEN Raised("ValueError")
        ELSE Returned(int_value(payload))

\* a plausible slip: the local part is cut at the last '@', not the first
email_to_group_id_last_at(addr, key) ==
    LET ats == {i \in 1..Len(addr) : addr[i] = "@"}
        local == IF ats = {} THEN addr
                 ELSE SubSeq(addr, 1, (CHOOSE i \in ats : \A j \in ats : j <= i) - 1)
        unsigned == unsign(replace(local, "+", ":"), key)
    IN  IF unsigned.kind # "ok" THEN Raised("BadSignature")
        ELSE IF ~int_ok(unsigned.value) THEN Raised("ValueError")
        ELSE Returned(int_value(unsigned.value))

email_to_group_id(addr, key) ==
    LET local == split_first(addr, "@")
        signed_data == replace(local, "+", ":")
        unsigned == unsign(signed_data, key)
    IN  IF unsigned.kind # "ok" THEN Raised("BadSignature")
        ELSE IF ~int_ok(unsigned.value) THEN Raised("ValueError")
        ELSE Returned(int_value(unsigned.value))

\* a plausible slip: the signer's ':' is left in the local part
group_id_to_email_no_replace(g, key, host) ==
    join_at(sign(str(g), key), host)

group_id_to_email(g, key, host) ==
    LET signed_data == sign(str(g), key)
    IN  join_at(replace(signed_data, ":", "+"), host)

----------------------------------------------------------------------------
(* Python values of the MessageBuilder arguments *)

None == [t |-> "None"]

Text(s) == [t |-> "str", v |-> s]

\* a dict is the set of its <<key, value>> items
Dict(items) == [t |-> "dict", v |-> items]

\* the truth value Python gives a value: None, '' and {} are false
Truthy(x) ==
    CASE x.t = "None" -> FALSE
      [] x.t = "str" -> x.v # ""
      [] x.t = "dict" -> x.v # {}

\* x or y
Or(x, y) == IF Truthy(x) THEN x ELSE y

Has(d, k) == \E item \in d.v : item[1] = k

Get(d, k) == (CHOOSE item \in d.v : item[1] = k)[2]

\* d.setdefault(k, v): the dict afterwards
setdefault(d, k, v) == IF Has(d, k) THEN d ELSE Dict(d.v \cup {<<k, v>>})

\* d[k] = v: the dict afterwards
setitem(d, k, v) == Dict({item \in d.v : item[1] # k} \cup {<<k, v>>})

RECURSIVE join(_, _)
\* s.join(items)
join(s, items) ==
    IF items = <<>> THEN ""
    ELSE IF Len(items) = 1 THEN items[1]
    ELSE items[1] \o s \o join(s, Tail(items))

----------------------------------------------------------------------------
(* Inputs of the MessageBuilder operations *)

MaxRecipients == 2

Recipients == {"a@x", "b@x"}

\* the recipient lists: up to MaxRecipients distinct addresses, in any order
ToLists ==
    {t \in UNION {[1..n -> Recipients] : n \in 0..MaxRecipients} :
        \A i, j \in 1..Len(t) : i # j => t[i] # t[j]}

Subjects == {Text("Alert")}

Contexts == {None, Dict({}), Dict({<<"name", "x">>})}

Templates == {None, Text(""), Text("t.txt"), Text("missing.txt")}

HtmlTemplates == {None, Text("t.html")}

Bodies == {None, Text(""), Text("hello")}

HtmlBodies == {None, Text(""), Text("<p>cafe</p>")}

HeaderArgs ==
    {None,
     Dict({}),
     Dict({<<"X-Sentry-Reply-To", "x@y">>}),
     Dict({<<"Reply-To", "r@z">>}),
     Dict({<<"Reply-To", "r@z">>, <<"X-Sentry-Reply-To", "x@y">>})}

CtorArgs ==
    [subject : Subjects, context : Contexts, template : Templates,
     html_template : HtmlTemplates, body : Bodies, html_body : HtmlBodies,
     headers : HeaderArgs]

\* settings.SERVER_EMAIL
SERVER_EMAIL == "root@localhost"

----------------------------------------------------------------------------
(* Collaborators of MessageBuilder *)

\* templates the rendering collaborator has
KnownTemplates == {"t.txt", "t.html"}

\* render_to_string(template, context): the rendered text, or a failure
render_to_string(template, context) ==
    IF template.v \in KnownTemplates
    THEN [kind |-> "ok", value |-> [t |-> "rendered", template |-> template.v, context |-> context]]
    ELSE [kind |-> "TemplateRenderError"]

\* UnicodeSafePynliner().from_string(html).run()
inline(html) == [t |-> "inlined", html |-> html]

----------------------------------------------------------------------------
(* MessageBuilder *)

NoBuilder == [t |-> "NoBuilder"]

NoMessage == [kind |-> "none"]

NoSend == [kind |-> "none"]

\* a plausible slip: the html_body/html_template assertion is missing
init_asserts_no_html(a) ==
    /\ ~(Truthy(a.body) /\ Truthy(a.template))
    /\ Truthy(a.context) \/ ~(Truthy(a.template) \/ Truthy(a.html_template))

\* a plausible slip: the context assertion is missing
init_asserts_no_context(a) ==
    /\ ~(Truthy(a.body) /\ Truthy(a.template))
    /\ ~(Truthy(a.html_body) /\ Truthy(a.html_template))

\* the three assertions of __init__
init_asserts(a) ==
    /\ ~(Truthy(a.body) /\ Truthy(a.template))
    /\ ~(Truthy(a.html_body) /\ Truthy(a.html_template))
    /\ Truthy(a.context) \/ ~(Truthy(a.template) \/ Truthy(a.html_template))

\* the fields __init__ stores
init_fields(a) ==
    [t |-> "MessageBuilder",
     subject |-> a.subject,
     context |-> Or(a.context, Dict({})),
     template |-> a.template,
     html_template |-> a.html_template,
     body |-> a.body,
     html_body |-> a.html_body,
     headers |-> a.headers]

\* MessageBuilder.__init__
MessageBuilder(a) ==
    IF init_asserts(a)
    THEN [kind |-> "ok", self |-> init_fields(a)]
    ELSE [kind |-> "AssertionError", self |-> NoBuilder]

\* the rest of build once the headers are made: the bodies and the message.
\* The HTML alternative is attached "if html_body:"; a rendered template is
\* taken to be non-empty.
build_message(self, to, headers) ==
    LET txt == IF Truthy(self.template)
               THEN render_to_string(self.template, self.context)
               ELSE [kind |-> "ok", value |-> self.body]
        html == IF Truthy(self.html_template)
                THEN render_to_string(self.html_template, self.context)
                ELSE [kind |-> "ok", value |-> self.html_body]
    IN  IF txt.kind # "ok" THEN [kind |-> txt.kind]
        ELSE IF html.kind # "ok" THEN [kind |-> html.kind]
        ELSE [kind |-> "message",
              subject |-> self.subject,
              body |-> txt.value,
              from_email |-> SERVER_EMAIL,
              to |-> to,
              headers |-> headers,
              alternatives |->
                  IF html.value.t = "rendered" \/ Truthy(html.value)
                  THEN << <<inline(html.value), "text/html">> >>
                  ELSE <<>>]

\* a plausible slip: the headers are not copied, so build writes into self.headers
build_no_copy(self, to, enabled) ==
    LET given == IF self.headers = None THEN Dict({}) ELSE self.headers
        reply_to == IF enabled /\ Has(given, "X-Sentry-Reply-To")
                    THEN Get(given, "X-Sentry-Reply-To")
                    ELSE join(", ", to)
        headers == setdefault(given, "Reply-To", reply_to)
    IN  [self |-> IF self.headers = None THEN self ELSE [self EXCEPT !.headers = headers],
         out |-> build_message(self, to, headers)]

\* a plausible slip: X-Sentry-Reply-To is never looked at
build_no_override(self, to, enabled) ==
    LET given == IF self.headers = None THEN Dict({}) ELSE self.headers
        headers == setdefault(given, "Reply-To", join(", ", to))
    IN  [self |-> self, out |-> build_message(self, to, headers)]

\* a plausible slip: Reply-To is assigned, not set by default
build_overwrite(self, to, enabled) ==
    LET given == IF self.headers = None THEN Dict({}) ELSE self.headers
        reply_to == IF enabled /\ Has(given, "X-Sentry-Reply-To")
                    THEN Get(given, "X-Sentry-Reply-To")
                    ELSE join(", ", to)
        headers == setitem(given, "Reply-To", reply_to)
    IN  [self |-> self, out |-> build_message(self, to, headers)]

\* MessageBuilder.build: the builder afterwards and the message or the failure
build(self, to, enabled) ==
    LET copy == IF self.headers = None THEN Dict({}) ELSE self.headers
        reply_to == IF enabled /\ Has(copy, "X-Sentry-Reply-To")
                    THEN Get(copy, "X-Sentry-Reply-To")
                    ELSE join(", ", to)
        headers == setdefault(copy, "Reply-To", reply_to)
    IN  [self |-> self, out |-> build_message(self, to, headers)]

\* msg.send(fail_silently) of the delivery collaborator, when the transport
\* fails (smtp_fails) or not
deliver(message, fail_silently, smtp_fails) ==
    IF smtp_fails /\ ~fail_silently THEN "DeliveryError" ELSE "returned"

\* a plausible slip: fail_silently also swallows what build raises
send_swallow_build(self, to, fail_silently, smtp_fails, enabled) ==
    LET b == build(self, to, enabled)
    IN  IF b.out.kind # "message"
        THEN [self |-> b.self,
              kind |-> IF fail_silently THEN "returned" ELSE b.out.kind,
              deliveries |-> 0]
        ELSE [self |-> b.self,
              kind |-> deliver(b.out, fail_silently, smtp_fails),
              deliveries |-> 1]

\* MessageBuilder.send: the builder afterwards, how the call ends, and how
\* many times the message was handed to the delivery collaborator
send(self, to, fail_silently, smtp_fails, enabled) ==
    LET b == build(self, to, enabled)
    IN  IF b.out.kind # "message"
        THEN [self |-> b.self, kind |-> b.out.kind, deliveries |-> 0]
        ELSE [self |-> b.self,
              kind |-> deliver(b.out, fail_silently, smtp_fails),
              deliveries |-> 1]

----------------------------------------------------------------------------
(* MessageBuilder state machine *)

NoArgs ==
    [subject |-> Text("Alert"), context |-> None, template |-> None,
     html_template |-> None, body |-> None, html_body |-> None, headers |-> None]

BuilderStart ==
    /\ ctor_args = NoArgs
    /\ ctor = "none"
    /\ builder = NoBuilder
    /\ msg = NoMessage
    /\ prev_msg = NoMessage
    /\ send_result = NoSend

\* MessageBuilder(subject, context, template, html_template, body, html_body, headers).
\* The model follows one builder object from its construction on.
Construct(a) ==
    /\ ctor = "none"
    /\ ctor_args' = a
    /\ ctor' = MessageBuilder(a).kind
    /\ builder' = MessageBuilder(a).self
    /\ msg' = NoMessage
    /\ prev_msg' = NoMessage
    /\ send_result' = NoSend
    /\ UNCHANGED enable_email_replies
    /\ UNCHANGED codecVars

\* builder.build(to)
Build(to) ==
    /\ ctor = "ok"
    /\ LET b == build(builder, to, enable_email_replies)
       IN  /\ builder' = b.self
           /\ msg' = b.out
    /\ prev_msg' = msg
    /\ UNCHANGED <<enable_email_replies, ctor_args, ctor, send_result>>
    /\ UNCHANGED codecVars

\* builder.send(to, fail_silently)
Send(to, fail_silently, smtp_fails) ==
    /\ ctor = "ok"
    /\ LET r == send(builder, to, fail_silently, smtp_fails, enable_email_replies)
       IN  /\ builder' = r.self
           /\ send_result' = [kind |-> r.kind, deliveries |-> r.deliveries,
                              fail_silently |-> fail_silently, smtp_fails |-> smtp_fails]
    /\ UNCHANGED <<enable_email_replies, ctor_args, ctor, msg, prev_msg>>
    /\ UNCHANGED codecVars

BuilderInit ==
    /\ secret = 1
    /\ hostname = <<"h">>
    /\ CodecStart
    /\ enable_email_replies \in BOOLEAN
    /\ BuilderStart

\* a builder is constructed and built any number of times
BuilderNext ==
    \/ ctor = "none" /\ \E a \in CtorArgs : Construct(a)
    \/ \E to \in ToLists : Build(to)

SpecBuilder == BuilderInit /\ [][BuilderNext]_vars

\* a builder is constructed and sent any number of times
SendNext ==
    \/ ctor = "none" /\ \E a \in CtorArgs : Construct(a)
    \/ \E to \in ToLists, fail_silently \in BOOLEAN, smtp_fails \in BOOLEAN :
          Send(to, fail_silently, smtp_fails)

SpecSend == BuilderInit /\ [][SendNext]_vars

----------------------------------------------------------------------------
(* Codec state machine *)

CodecInit ==
    /\ secret \in Secrets
    /\ hostname \in Hostnames
    /\ CodecStart
    /\ enable_email_replies = FALSE
    /\ BuilderStart

\* group_id_to_email(g) is called and its address kept. The codec keeps no
\* state between calls, so outbound addresses are not interleaved with the
\* typing of an inbound one.
Encode(g) ==
    /\ origin = "inbound" => address = <<>>
    /\ address' = group_id_to_email(g, secret, hostname)
    /\ group_id' = g
    /\ origin' = "encoded"
    /\ result' = NoResult
    /\ UNCHANGED <<secret, hostname>>
    /\ UNCHANGED builderVars

\* positions of the signature within an encoded address of group g
SignaturePositions(g) == (Len(str(g)) + 2)..(Len(str(g)) + 1 + SigLen)

\* one character of the signature of an encoded address is replaced
Tamper(i, c) ==
    /\ origin = "encoded"
    /\ i \in SignaturePositions(group_id)
    /\ c # address[i]
    /\ address' = [address EXCEPT ![i] = c]
    /\ origin' = "tampered"
    /\ result' = NoResult
    /\ UNCHANGED <<secret, hostname, group_id>>
    /\ UNCHANGED builderVars

\* an address arrives from outside, one character after the other
Inbound(c) ==
    /\ origin = "inbound"
    /\ Len(address) < MaxAddrLen
    /\ address' = Append(address, c)
    /\ result' = NoResult
    /\ UNCHANGED origin
    /\ UNCHANGED builderVars
    /\ UNCHANGED <<secret, hostname, group_id>>
    /\ UNCHANGED builderVars

\* email_to_group_id(address) is called
Decode ==
    /\ result.kind = "none"
    /\ result' = email_to_group_id(address, secret)
    /\ UNCHANGED <<secret, hostname, address, origin, group_id>>
    /\ UNCHANGED builderVars

CodecNext ==
    \/ \E g \in 0..MaxGroupId : Encode(g)
    \/ \E i \in 1..Len(address), c \in Chars : Tamper(i, c)
    \/ \E c \in InboundChars : Inbound(c)
    \/ Decode

SpecCodec == CodecInit /\ [][CodecNext]_vars

----------------------------------------------------------------------------
(* Properties of the address codec, checked under SpecCodec *)

Decoded == result.kind # "none"

\* the local part of the current address: the text before its first '@'
LocalPart == split_first(address, "@")

\* C1. Round trip: decoding the address group_id_to_email(g) made, whatever
\* the hostname, returns exactly g; it neither fails nor yields another id.
RoundTrip == (origin = "encoded" /\ Decoded) => result = Returned(group_id)

RoundTripWitness ==
    origin = "encoded" /\ group_id >= 10 /\ result = Returned(group_id)

\* C2. Tamper rejection: with one character of the signature of an encoded
\* address replaced by another one ('+', ':' and '@' included), decoding fails
\* with the signature error and returns no group id.
TamperRejected == (origin = "tampered" /\ Decoded) => result = Raised("BadSignature")

TamperRejectedWitness ==
    /\ origin = "tampered"
    /\ result = Raised("BadSignature")
    /\ \E i \in SignaturePositions(group_id) : address[i] = "+"

\* the token the local part stands for is p:signature(p) for this payload p
SignedPayloads ==
    LET token == replace(LocalPart, "+", ":")
    IN  {p \in {SubSeq(token, 1, k) : k \in 0..Len(token)} : token = sign(p, secret)}

\* C3. Decoding returns a group id only when the local part, '+' read as ':',
\* is a validly signed token with an integer payload, and then that integer;
\* every other address raises; the text from the first '@' on changes nothing.
DecodeSafe ==
    Decoded =>
        /\ IF \E p \in SignedPayloads : int_ok(p)
           THEN \E p \in SignedPayloads : result = Returned(int_value(p))
           ELSE result.kind \in {"BadSignature", "ValueError"}
        /\ \A h \in Hostnames \cup {<<>>} :
              email_to_group_id(join_at(LocalPart, h), secret) = result
        /\ email_to_group_id(LocalPart, secret) = result

DecodeSafeWitness ==
    origin = "inbound" /\ result.kind = "returned" /\ Contains(address, "@")

\* C10. Delimiter safety: the local part of an encoded address has no ':';
\* it is the decimal payload, '+', and the signature of the payload.
DelimiterSafe ==
    origin = "encoded" =>
        /\ ~Contains(LocalPart, ":")
        /\ LocalPart = str(group_id) \o <<"+">> \o signature(str(group_id), secret)

DelimiterSafeWitness ==
    origin = "encoded" /\ group_id >= 10 /\ Contains(hostname, ":")

----------------------------------------------------------------------------
(* Properties of MessageBuilder, checked under SpecBuilder and SpecSend *)

Given(x) == x # None

HeadersGiven(k) == Given(builder.headers) /\ Has(builder.headers, k)

Built == msg.kind = "message"

\* C4 as stated: both of body and template supplied, or both of html_body and
\* html_template, whatever their values, and the construction fails.
ExclusiveWhenSupplied ==
    (ctor # "none" /\ (\/ Given(ctor_args.body) /\ Given(ctor_args.template)
                       \/ Given(ctor_args.html_body) /\ Given(ctor_args.html_template)))
        => (ctor = "AssertionError" /\ builder = NoBuilder)

\* C4, amended. Both of body and template non-empty, or both of html_body and
\* html_template non-empty: the construction fails at once and leaves no builder.
ExclusiveWhenNonEmpty ==
    (ctor # "none" /\ (\/ Truthy(ctor_args.body) /\ Truthy(ctor_args.template)
                       \/ Truthy(ctor_args.html_body) /\ Truthy(ctor_args.html_template)))
        => (ctor = "AssertionError" /\ builder = NoBuilder /\ msg = NoMessage)

ExclusiveWitness ==
    /\ ctor = "AssertionError"
    /\ Truthy(ctor_args.html_body) /\ Truthy(ctor_args.html_template)
    /\ ~(Truthy(ctor_args.body) /\ Truthy(ctor_args.template))
    /\ Truthy(ctor_args.context)

\* C5 as stated: a constructed builder has exactly one of body and template
\* given, and a context given whenever a template or html_template is.
ExactlyOneTextSource ==
    ctor = "ok" =>
        /\ Given(builder.body) \/ Given(builder.template)
        /\ ~(Given(builder.body) /\ Given(builder.template))
        /\ (Given(builder.template) \/ Given(builder.html_template)) => Given(ctor_args.context)

\* C5, amended. A constructed builder has at most one of body and template
\* non-empty, at most one of html_body and html_template non-empty, and a
\* non-empty context whenever a template or html_template is non-empty.
AtMostOneTextSource ==
    ctor = "ok" =>
        /\ ~(Truthy(builder.body) /\ Truthy(builder.template))
        /\ ~(Truthy(builder.html_body) /\ Truthy(builder.html_template))
        /\ (Truthy(builder.template) \/ Truthy(builder.html_template))
              => (Truthy(ctor_args.context) /\ builder.context = ctor_args.context)

AtMostOneWitness ==
    /\ ctor = "ok"
    /\ ~Truthy(builder.body) /\ ~Truthy(builder.template)
    /\ Truthy(builder.html_template)

\* C6 as stated: with reply routing enabled and X-Sentry-Reply-To: v among the
\* headers, whatever the other headers, the built message has Reply-To: v.
ReplyToOverrideAlways ==
    (Built /\ enable_email_replies /\ HeadersGiven("X-Sentry-Reply-To"))
        => Get(msg.headers, "Reply-To") = Get(builder.headers, "X-Sentry-Reply-To")

\* C6, amended. With reply routing enabled, X-Sentry-Reply-To: v among the
\* headers and no Reply-To among them, the built message has Reply-To: v and
\* not the recipient list.
ReplyToOverride ==
    (Built /\ enable_email_replies /\ HeadersGiven("X-Sentry-Reply-To")
           /\ ~HeadersGiven("Reply-To"))
        => /\ Has(msg.headers, "Reply-To")
           /\ Get(msg.headers, "Reply-To") = Get(builder.headers, "X-Sentry-Reply-To")

ReplyToOverrideWitness ==
    /\ Built /\ enable_email_replies
    /\ HeadersGiven("X-Sentry-Reply-To") /\ ~HeadersGiven("Reply-To")
    /\ Len(msg.to) = 2
    /\ Get(msg.headers, "Reply-To") = "x@y"

RECURSIVE CommaList(_)
\* the addresses of a list in their order, ', ' between two of them
CommaList(to) ==
    IF Len(to) = 0 THEN ""
    ELSE IF Len(to) = 1 THEN to[1]
    ELSE CommaList(SubSeq(to, 1, Len(to) - 1)) \o ", " \o to[Len(to)]

\* C7. A Reply-To the caller supplied is kept; with none supplied and no
\* override (routing disabled or no X-Sentry-Reply-To), Reply-To is the
\* recipients in their order joined by ', '.
ReplyToDefault ==
    Built =>
        /\ Has(msg.headers, "Reply-To")
        /\ HeadersGiven("Reply-To")
              => Get(msg.headers, "Reply-To") = Get(builder.headers, "Reply-To")
        /\ (~HeadersGiven("Reply-To")
              /\ ~(enable_email_replies /\ HeadersGiven("X-Sentry-Reply-To")))
              => Get(msg.headers, "Reply-To") = CommaList(msg.to)

ReplyToDefaultWitness ==
    /\ Built
    /\ ~HeadersGiven("Reply-To")
    /\ msg.to = <<"b@x", "a@x">>
    /\ Get(msg.headers, "Reply-To") = "b@x, a@x"

\* C8. build changes nothing: after any number of builds the builder has the
\* fields its construction gave it, headers included, and two builds for the
\* same recipients give the same message.
BuildIsPure ==
    /\ ctor = "ok" => builder = init_fields(ctor_args)
    /\ (Built /\ prev_msg.kind = "message" /\ msg.to = prev_msg.to) => msg = prev_msg

BuildIsPureWitness ==
    /\ Built /\ prev_msg = msg
    /\ Given(builder.headers) /\ ~Has(builder.headers, "Reply-To")
    /\ Has(msg.headers, "Reply-To")
    /\ msg.alternatives # <<>>

Sent == send_result.kind # "none"

\* what building raises for this builder: render_to_string fails on a template
BuildFails ==
    \/ Truthy(builder.template) /\ builder.template.v \notin KnownTemplates
    \/ Truthy(builder.html_template) /\ builder.html_template.v \notin KnownTemplates

\* C9 as stated: one delivery attempt at most, none after a failed build, and
\* with fail_silently neither a rendering nor a delivery failure reaches the caller.
SendSilencesAllFailures ==
    Sent =>
        /\ send_result.deliveries = IF BuildFails THEN 0 ELSE 1
        /\ send_result.fail_silently => send_result.kind = "returned"
        /\ (~send_result.fail_silently /\ BuildFails) => send_result.kind = "TemplateRenderError"
        /\ (~send_result.fail_silently /\ ~BuildFails /\ send_result.smtp_fails)
              => send_result.kind = "DeliveryError"

\* C9, amended. send builds, then hands the message to delivery exactly once.
\* A rendering failure reaches the caller whatever fail_silently is, and then
\* nothing is delivered; a delivery failure reaches the caller unless
\* fail_silently, and then send returns normally.
SendPropagation ==
    Sent =>
        IF BuildFails
        THEN send_result.kind = "TemplateRenderError" /\ send_result.deliveries = 0
        ELSE /\ send_result.deliveries = 1
             /\ send_result.kind =
                   IF send_result.smtp_fails /\ ~send_result.fail_silently
                   THEN "DeliveryError" ELSE "returned"

SendPropagationWitness ==
    /\ Sent /\ BuildFails /\ send_result.fail_silently
    /\ send_result.kind = "TemplateRenderError"

====
